---- MODULE Spec2Model ----
(***************************************************************************)
(* Model of internal/httpclient/manager.go: the HTTPClientManager cache of *)
(* *http.Client values keyed by Config.getFingerprint().                   *)
(*                                                                         *)
(* Durations are integers counted in model ticks of one millisecond (Go    *)
(* counts nanoseconds; the rounding of Seconds() under %.0f is the same at *)
(* either resolution for the magnitudes used here).                        *)
(***************************************************************************)
EXTENDS Integers, Sequences, FiniteSets, TLC

\* Number of GetClient calls (goroutines) in a run.
NumCalls == 3

\* time.Second, in model ticks.
Second == 1000

Calls == 1..NumCalls

NoCall == 0

NoClient == 0

Abs(n) == IF n < 0 THEN -n ELSE n

----------------------------------------------------------------------------
(* Config and its fingerprint                                              *)

DurationFields == {"ConnectTimeout", "RequestTimeout", "IdleConnTimeout",
                   "ResponseHeaderTimeout", "TLSHandshakeTimeout",
                   "ExpectContinueTimeout"}

IntFields == {"MaxIdleConns", "MaxIdleConnsPerHost", "WriteBufferSize",
              "ReadBufferSize"}

BoolFields == {"DisableCompression", "ForceAttemptHTTP2", "ProxyTLSSkipVerify"}

StringFields == {"ProxyURL"}

ConfigFields == DurationFields \cup IntFields \cup BoolFields \cup StringFields

\* The scenario configuration of the specification: connect=15s,
\* request=600s, idle=120s, no proxy.
ScenarioConfig ==
    [ConnectTimeout        |-> 15 * Second,
     RequestTimeout        |-> 600 * Second,
     IdleConnTimeout       |-> 120 * Second,
     MaxIdleConns          |-> 1,
     MaxIdleConnsPerHost   |-> 0,
     ResponseHeaderTimeout |-> 600 * Second,
     DisableCompression    |-> FALSE,
     WriteBufferSize       |-> 1,
     ReadBufferSize        |-> 0,
     ForceAttemptHTTP2     |-> TRUE,
     TLSHandshakeTimeout   |-> 1 * Second,
     ExpectContinueTimeout |-> 0,
     ProxyURL              |-> "",
     ProxyTLSSkipVerify    |-> FALSE]

\* The same configuration behind an explicit proxy.
ProxiedConfig == [ScenarioConfig EXCEPT !.ProxyURL = "http://p/"]

Digit(n) == <<"0", "1", "2", "3", "4", "5", "6", "7", "8", "9">>[n + 1]

\* Decimal digits of a natural number.
RECURSIVE DigitStr(_)
DigitStr(n) == IF n < 10 THEN Digit(n) ELSE DigitStr(n \div 10) \o Digit(n % 10)

\* fmt verb %d.
FmtInt(n) == IF n < 0 THEN "-" \o DigitStr(-n) ELSE DigitStr(n)

\* fmt verb %t.
FmtBool(b) == IF b THEN "true" ELSE "false"

\* time.Duration.Seconds(): the duration as a real number of seconds, kept
\* as sign, integral part and fractional part (in ticks) of its magnitude.
Seconds(d) == [neg |-> d < 0, whole |-> Abs(d) \div Second, frac |-> Abs(d) % Second]

\* The magnitude of x rounded to an integer, to nearest with ties to even,
\* as strconv formats a float64 with precision 0.
RoundHalfEven(x) ==
    IF 2 * x.frac > Second \/ (2 * x.frac = Second /\ x.whole % 2 = 1)
    THEN x.whole + 1
    ELSE x.whole

\* A bug that prints durations at full precision (ticks) instead of seconds.
FmtFloat0Exact(x) ==
    (IF x.neg THEN "-" ELSE "") \o DigitStr(x.whole) \o "." \o DigitStr(x.frac)

\* fmt verb %.0f: the sign is kept even when the magnitude rounds to zero.
FmtFloat0(x) == (IF x.neg THEN "-" ELSE "") \o DigitStr(RoundHalfEven(x))

\* A bug that leaves ProxyTLSSkipVerify out of the fingerprint.
getFingerprintNoPtls(c) ==
    "ct:" \o FmtFloat0(Seconds(c.ConnectTimeout)) \o "s|rt:"
          \o FmtFloat0(Seconds(c.RequestTimeout)) \o "s|it:"
          \o FmtFloat0(Seconds(c.IdleConnTimeout)) \o "s|mic:"
          \o FmtInt(c.MaxIdleConns) \o "|mich:"
          \o FmtInt(c.MaxIdleConnsPerHost) \o "|rht:"
          \o FmtFloat0(Seconds(c.ResponseHeaderTimeout)) \o "s|dc:"
          \o FmtBool(c.DisableCompression) \o "|wbs:"
          \o FmtInt(c.WriteBufferSize) \o "|rbs:"
          \o FmtInt(c.ReadBufferSize) \o "|fh2:"
          \o FmtBool(c.ForceAttemptHTTP2) \o "|tlst:"
          \o FmtFloat0(Seconds(c.TLSHandshakeTimeout)) \o "s|ect:"
          \o FmtFloat0(Seconds(c.ExpectContinueTimeout)) \o "s|proxy:"
          \o c.ProxyURL

\* Config.getFingerprint.
getFingerprint(c) ==
    "ct:" \o FmtFloat0(Seconds(c.ConnectTimeout)) \o "s|rt:"
          \o FmtFloat0(Seconds(c.RequestTimeout)) \o "s|it:"
          \o FmtFloat0(Seconds(c.IdleConnTimeout)) \o "s|mic:"
          \o FmtInt(c.MaxIdleConns) \o "|mich:"
          \o FmtInt(c.MaxIdleConnsPerHost) \o "|rht:"
          \o FmtFloat0(Seconds(c.ResponseHeaderTimeout)) \o "s|dc:"
          \o FmtBool(c.DisableCompression) \o "|wbs:"
          \o FmtInt(c.WriteBufferSize) \o "|rbs:"
          \o FmtInt(c.ReadBufferSize) \o "|fh2:"
          \o FmtBool(c.ForceAttemptHTTP2) \o "|tlst:"
          \o FmtFloat0(Seconds(c.TLSHandshakeTimeout)) \o "s|ect:"
          \o FmtFloat0(Seconds(c.ExpectContinueTimeout)) \o "s|proxy:"
          \o c.ProxyURL \o "|ptls:"
          \o FmtBool(c.ProxyTLSSkipVerify)

----------------------------------------------------------------------------
(* Inputs of the fingerprint checks                                        *)

\* Durations around the half-second and whole-second boundaries, of both
\* signs, and the scenario's 120s / 121s.
DurationValues == {0, 400, 500, 600, 1000, 1400, 1500, 1600, 2400, 2500,
                   -400, -500, -1600, 120000, 121000}

\* Counts whose decimal texts are prefixes of one another.
IntValues == {-1, 0, 1, 10, 11}

\* Proxy URLs, some holding the separator and the tag text of other fields.
ProxyValues == {"", "http://p/", "http://p/|ptls:true", "http://p/|ptls:false",
                "0s|proxy:", "http://%zz"}

FieldValues(f) ==
    IF f \in DurationFields THEN DurationValues
    ELSE IF f \in IntFields THEN IntValues
    ELSE IF f \in BoolFields THEN BOOLEAN
    ELSE ProxyValues

\* A base configuration with at most one field replaced.
Variants(base) ==
    {base} \cup {[base EXCEPT ![f] = v] : <<f, v>> \in
                    UNION {{<<g, w>> : w \in FieldValues(g)} : g \in ConfigFields}}

FingerprintInputs == Variants(ScenarioConfig) \cup Variants(ProxiedConfig)

----------------------------------------------------------------------------
(* Client construction (the body of the slow path)                         *)

\* Proxy URLs on which url.Parse returns an error: an invalid percent
\* escape in the host, and a scheme-less first path segment with a colon.
InvalidProxyURLs == {"http://%zz", "0s|proxy:"}

\* err != nil after url.Parse(config.ProxyURL).
ParseFails(s) == s \in InvalidProxyURLs

\* A nil *tls.Config: the defaults, certificates are verified.
DefaultTLS == [InsecureSkipVerify |-> FALSE]

ProxyFromEnvironment == [kind |-> "ProxyFromEnvironment", url |-> ""]

ProxyURL(u) == [kind |-> "ProxyURL", url |-> u]

\* A bug: the proxy branch without the test for an empty URL; url.Parse
\* accepts the empty string, and the transport is pinned to an empty URL.
ProxyForNoEmptyTest(config) ==
    IF ParseFails(config.ProxyURL)
    THEN ProxyFromEnvironment
    ELSE ProxyURL(config.ProxyURL)

\* A bug: the parsed URL is dropped and the environment is used throughout.
ProxyForAlwaysEnvironment(config) == ProxyFromEnvironment

\* transport.Proxy as chosen by the branches on config.ProxyURL.
ProxyFor(config) ==
    IF config.ProxyURL # ""
    THEN IF ParseFails(config.ProxyURL)
         THEN ProxyFromEnvironment
         ELSE ProxyURL(config.ProxyURL)
    ELSE ProxyFromEnvironment

\* A bug that takes the per-request deadline from the wrong field.
BuildClientWrongTimeout(config) ==
    [Timeout   |-> config.ConnectTimeout,
     Transport |->
        [DialTimeout           |-> config.ConnectTimeout,
         KeepAlive             |-> 30 * Second,
         ForceAttemptHTTP2     |-> config.ForceAttemptHTTP2,
         MaxIdleConns          |-> config.MaxIdleConns,
         MaxIdleConnsPerHost   |-> config.MaxIdleConnsPerHost,
         IdleConnTimeout       |-> config.IdleConnTimeout,
         TLSHandshakeTimeout   |-> config.TLSHandshakeTimeout,
         ExpectContinueTimeout |-> config.ExpectContinueTimeout,
         ResponseHeaderTimeout |-> config.ResponseHeaderTimeout,
         DisableCompression    |-> config.DisableCompression,
         WriteBufferSize       |-> config.WriteBufferSize,
         ReadBufferSize        |-> config.ReadBufferSize,
         TLSClientConfig       |-> IF config.ProxyTLSSkipVerify
                                   THEN [InsecureSkipVerify |-> TRUE]
                                   ELSE DefaultTLS,
         Proxy                 |-> ProxyFor(config)]]

\* The http.Client and http.Transport built from a configuration.
BuildClient(config) ==
    [Timeout   |-> config.RequestTimeout,
     Transport |->
        [DialTimeout           |-> config.ConnectTimeout,
         KeepAlive             |-> 30 * Second,
         ForceAttemptHTTP2     |-> config.ForceAttemptHTTP2,
         MaxIdleConns          |-> config.MaxIdleConns,
         MaxIdleConnsPerHost   |-> config.MaxIdleConnsPerHost,
         IdleConnTimeout       |-> config.IdleConnTimeout,
         TLSHandshakeTimeout   |-> config.TLSHandshakeTimeout,
         ExpectContinueTimeout |-> config.ExpectContinueTimeout,
         ResponseHeaderTimeout |-> config.ResponseHeaderTimeout,
         DisableCompression    |-> config.DisableCompression,
         WriteBufferSize       |-> config.WriteBufferSize,
         ReadBufferSize        |-> config.ReadBufferSize,
         TLSClientConfig       |-> IF config.ProxyTLSSkipVerify
                                   THEN [InsecureSkipVerify |-> TRUE]
                                   ELSE DefaultTLS,
         Proxy                 |-> ProxyFor(config)]]

SkipVerifyWarning == [level |-> "warning", about |-> "ProxyTLSSkipVerify", value |-> ""]

InvalidProxyWarning(u) == [level |-> "warning", about |-> "InvalidProxyURL", value |-> u]

\* A bug that logs the fallback without the offending value.
InvalidProxyWarningsUnnamed(config) ==
    IF config.ProxyURL # "" /\ ParseFails(config.ProxyURL)
    THEN <<InvalidProxyWarning("")>>
    ELSE <<>>

\* The logrus.Warnf of the proxy branch.
InvalidProxyWarnings(config) ==
    IF config.ProxyURL # "" /\ ParseFails(config.ProxyURL)
    THEN <<InvalidProxyWarning(config.ProxyURL)>>
    ELSE <<>>

\* A bug that disables verification silently.
SkipVerifyWarningsSilent(config) == <<>>

\* The logrus.Warnf of the TLS branch.
SkipVerifyWarnings(config) ==
    IF config.ProxyTLSSkipVerify THEN <<SkipVerifyWarning>> ELSE <<>>

\* The warning-level events one construction logs, in order.
BuildWarnings(config) == SkipVerifyWarnings(config) \o InvalidProxyWarnings(config)

\* Whether a TLS handshake of the transport validates the peer's certificate.
\* http.Transport uses its one TLSClientConfig for every TLS connection it
\* makes: to an https proxy and to the destination alike.
VerifiesCertificate(cl, leg) == ~cl.Transport.TLSClientConfig.InsecureSkipVerify

----------------------------------------------------------------------------
(* The manager                                                             *)

\* Configurations presented to GetClient.
SubSecondConfig == [ScenarioConfig EXCEPT !.RequestTimeout = 600 * Second + 400]

Idle121Config == [ScenarioConfig EXCEPT !.IdleConnTimeout = 121 * Second]

SkipVerifyConfig == [ScenarioConfig EXCEPT !.ProxyTLSSkipVerify = TRUE]

BadProxyConfig == [ScenarioConfig EXCEPT !.ProxyURL = "http://%zz"]

TestConfigs == {ScenarioConfig, SubSecondConfig, Idle121Config, SkipVerifyConfig,
                BadProxyConfig}

\* Configurations with a proxy URL: one that parses, with and without
\* ProxyTLSSkipVerify, another that parses, and one that does not.
ProxiedSkipVerifyConfig == [ProxiedConfig EXCEPT !.ProxyTLSSkipVerify = TRUE]

OtherProxyConfig == [ScenarioConfig EXCEPT !.ProxyURL = "http://p/|ptls:true"]

ProxyConfigs == {ProxiedConfig, ProxiedSkipVerifyConfig, OtherProxyConfig,
                 BadProxyConfig}

VARIABLES
    clients,   \* m.clients: fingerprint -> client (an index of heap)
    heap,      \* the http.Client objects constructed so far; identity is the index
    lock,      \* m.lock: readers holding it, the writer that called Lock, whether it holds it
    pc,        \* position of each call
    cfg,       \* the *Config given to each call
    fp,        \* local fingerprint
    client,    \* local client
    exists,    \* local exists
    newc,      \* local newClient (NoClient until constructed)
    ret,       \* the returned client
    warns,     \* the warning-level events each call has logged
    missed,    \* history: the read-locked lookup of the call found nothing
    before,    \* history: the calls that had returned when this call began
    c1, c2,    \* two configurations under comparison
    f1, f2,    \* their fingerprints
    fpc        \* position of the fingerprint comparison

mgrVars == <<clients, heap, lock, pc, cfg, fp, client, exists, newc, ret, warns,
             missed, before>>

fpVars == <<c1, c2, f1, f2, fpc>>

vars == <<clients, heap, lock, pc, cfg, fp, client, exists, newc, ret, warns,
          missed, before, c1, c2, f1, f2, fpc>>

\* NewHTTPClientManager, and no call begun.
InitManager ==
    /\ clients = [f \in {} |-> NoClient]
    /\ heap = <<>>
    /\ lock = [readers |-> {}, writer |-> NoCall, granted |-> FALSE]
    /\ pc = [c \in Calls |-> "idle"]
    /\ cfg = [c \in Calls |-> ScenarioConfig]
    /\ fp = [c \in Calls |-> ""]
    /\ client = [c \in Calls |-> NoClient]
    /\ exists = [c \in Calls |-> FALSE]
    /\ newc = [c \in Calls |-> NoClient]
    /\ ret = [c \in Calls |-> NoClient]
    /\ warns = [c \in Calls |-> <<>>]
    /\ missed = [c \in Calls |-> FALSE]
    /\ before = [c \in Calls |-> {}]

Init ==
    /\ InitManager
    /\ c1 = ScenarioConfig /\ c2 = ScenarioConfig
    /\ f1 = "" /\ f2 = ""
    /\ fpc = "off"

\* m.clients[fingerprint] as (client, exists).
MapGet(m, k) == IF k \in DOMAIN m THEN m[k] ELSE NoClient

\* A bug: the assignment re-makes the map with the new entry alone.
MapPutAlone(m, k, v) == [f \in {k} |-> v]

\* m.clients[fingerprint] = newClient.
MapPut(m, k, v) == [f \in DOMAIN m \cup {k} |-> IF f = k THEN v ELSE m[f]]

\* GetClient is entered (calls are numbered in the order they enter):
\* fingerprint := config.getFingerprint(); m.lock.RLock(), which blocks
\* while a writer holds or waits for the lock. The fingerprint is a pure
\* function of the configuration, so the call takes its first step that
\* another call can observe when RLock returns.
RLockWith(c, configs) ==
    /\ pc[c] = "idle"
    /\ \A d \in Calls : d < c => pc[d] # "idle"
    /\ lock.writer = NoCall
    /\ \E config \in configs :
          /\ cfg' = [cfg EXCEPT ![c] = config]
          /\ fp' = [fp EXCEPT ![c] = getFingerprint(config)]
    /\ before' = [before EXCEPT ![c] = {d \in Calls : pc[d] = "done"}]
    /\ lock' = [lock EXCEPT !.readers = @ \cup {c}]
    /\ pc' = [pc EXCEPT ![c] = "lookup"]
    /\ UNCHANGED <<clients, heap, client, exists, newc, ret, warns, missed>>
    /\ UNCHANGED fpVars

\* The call is made with one of the test configurations.
RLock(c) == RLockWith(c, TestConfigs)

\* The call is made with one of the proxy configurations.
RLockProxy(c) == RLockWith(c, ProxyConfigs)

\* client, exists := m.clients[fingerprint]
Lookup(c) ==
    /\ pc[c] = "lookup"
    /\ client' = [client EXCEPT ![c] = MapGet(clients, fp[c])]
    /\ exists' = [exists EXCEPT ![c] = fp[c] \in DOMAIN clients]
    /\ missed' = [missed EXCEPT ![c] = fp[c] \notin DOMAIN clients]
    /\ pc' = [pc EXCEPT ![c] = "runlock"]
    /\ UNCHANGED <<clients, heap, lock, cfg, fp, newc, ret, warns, before>>
    /\ UNCHANGED fpVars

\* A bug: the fast path releases the read lock and falls through to the
\* slow path even on a hit.
RUnlockFallsThrough(c) ==
    /\ pc[c] = "runlock"
    /\ lock' = [lock EXCEPT !.readers = @ \ {c}]
    /\ pc' = [pc EXCEPT ![c] = "lock"]
    /\ UNCHANGED <<clients, heap, cfg, fp, client, exists, newc, ret, warns, missed, before>>
    /\ UNCHANGED fpVars

\* m.lock.RUnlock(); if exists { return client }
RUnlock(c) ==
    /\ pc[c] = "runlock"
    /\ lock' = [lock EXCEPT !.readers = @ \ {c}]
    /\ IF exists[c]
       THEN /\ ret' = [ret EXCEPT ![c] = client[c]]
            /\ pc' = [pc EXCEPT ![c] = "done"]
       ELSE /\ ret' = ret
            /\ pc' = [pc EXCEPT ![c] = "lock"]
    /\ UNCHANGED <<clients, heap, cfg, fp, client, exists, newc, warns, missed, before>>
    /\ UNCHANGED fpVars

\* m.lock.Lock(), first half: writers exclude one another, and from here on
\* new readers block.
LockBegin(c) ==
    /\ pc[c] = "lock"
    /\ lock.writer = NoCall
    /\ lock' = [lock EXCEPT !.writer = c]
    /\ pc' = [pc EXCEPT ![c] = "lockwait"]
    /\ UNCHANGED <<clients, heap, cfg, fp, client, exists, newc, ret, warns, missed, before>>
    /\ UNCHANGED fpVars

\* m.lock.Lock(), second half: the readers that held the lock have left.
LockAcquire(c) ==
    /\ pc[c] = "lockwait"
    /\ lock.writer = c
    /\ lock.readers = {}
    /\ lock' = [lock EXCEPT !.granted = TRUE]
    /\ pc' = [pc EXCEPT ![c] = "recheck"]
    /\ UNCHANGED <<clients, heap, cfg, fp, client, exists, newc, ret, warns, missed, before>>
    /\ UNCHANGED fpVars

\* A bug: the slow path without the second lookup.
RecheckNoDoubleCheck(c) ==
    /\ pc[c] = "recheck"
    /\ pc' = [pc EXCEPT ![c] = "build"]
    /\ UNCHANGED <<clients, heap, lock, cfg, fp, client, exists, newc, ret, warns, missed, before>>
    /\ UNCHANGED fpVars

\* A bug: the write lock is released right after the second lookup, before
\* the client is constructed and stored.
RecheckUnlocksEarly(c) ==
    /\ pc[c] = "recheck"
    /\ client' = [client EXCEPT ![c] = MapGet(clients, fp[c])]
    /\ exists' = [exists EXCEPT ![c] = fp[c] \in DOMAIN clients]
    /\ IF fp[c] \in DOMAIN clients
       THEN /\ ret' = [ret EXCEPT ![c] = clients[fp[c]]]
            /\ lock' = lock
            /\ pc' = [pc EXCEPT ![c] = "unlock"]
       ELSE /\ ret' = ret
            /\ lock' = [lock EXCEPT !.writer = NoCall, !.granted = FALSE]
            /\ pc' = [pc EXCEPT ![c] = "build"]
    /\ UNCHANGED <<clients, heap, cfg, fp, newc, warns, missed, before>>
    /\ UNCHANGED fpVars

\* A bug: the second lookup returns on a hit without releasing the lock
\* (an early return with no deferred Unlock).
RecheckReturnsLocked(c) ==
    /\ pc[c] = "recheck"
    /\ client' = [client EXCEPT ![c] = MapGet(clients, fp[c])]
    /\ exists' = [exists EXCEPT ![c] = fp[c] \in DOMAIN clients]
    /\ IF fp[c] \in DOMAIN clients
       THEN /\ ret' = [ret EXCEPT ![c] = clients[fp[c]]]
            /\ pc' = [pc EXCEPT ![c] = "done"]
       ELSE /\ ret' = ret
            /\ pc' = [pc EXCEPT ![c] = "build"]
    /\ UNCHANGED <<clients, heap, lock, cfg, fp, newc, warns, missed, before>>
    /\ UNCHANGED fpVars

\* if client, exists = m.clients[fingerprint]; exists { return client }
Recheck(c) ==
    /\ pc[c] = "recheck"
    /\ client' = [client EXCEPT ![c] = MapGet(clients, fp[c])]
    /\ exists' = [exists EXCEPT ![c] = fp[c] \in DOMAIN clients]
    /\ IF fp[c] \in DOMAIN clients
       THEN /\ ret' = [ret EXCEPT ![c] = clients[fp[c]]]
            /\ pc' = [pc EXCEPT ![c] = "unlock"]
       ELSE /\ ret' = ret
            /\ pc' = [pc EXCEPT ![c] = "build"]
    /\ UNCHANGED <<clients, heap, lock, cfg, fp, newc, warns, missed, before>>
    /\ UNCHANGED fpVars

\* A bug: one http.Client shared by all constructions, overwritten in place
\* instead of allocated anew.
BuildShared(c) ==
    /\ pc[c] = "build"
    /\ IF heap = <<>>
       THEN heap' = <<BuildClient(cfg[c])>>
       ELSE heap' = [heap EXCEPT ![Len(heap)] = BuildClient(cfg[c])]
    /\ newc' = [newc EXCEPT ![c] = Len(heap')]
    /\ warns' = [warns EXCEPT ![c] = @ \o BuildWarnings(cfg[c])]
    /\ pc' = [pc EXCEPT ![c] = "insert"]
    /\ UNCHANGED <<clients, lock, cfg, fp, client, exists, ret, missed, before>>
    /\ UNCHANGED fpVars

\* transport := &http.Transport{...}; the TLS and proxy branches with their
\* warnings; newClient := &http.Client{...}
Build(c) ==
    /\ pc[c] = "build"
    /\ heap' = Append(heap, BuildClient(cfg[c]))
    /\ newc' = [newc EXCEPT ![c] = Len(heap) + 1]
    /\ warns' = [warns EXCEPT ![c] = @ \o BuildWarnings(cfg[c])]
    /\ pc' = [pc EXCEPT ![c] = "insert"]
    /\ UNCHANGED <<clients, lock, cfg, fp, client, exists, ret, missed, before>>
    /\ UNCHANGED fpVars

\* A bug: the new client is returned but never cached.
InsertForgotten(c) ==
    /\ pc[c] = "insert"
    /\ ret' = [ret EXCEPT ![c] = newc[c]]
    /\ pc' = [pc EXCEPT ![c] = "unlock"]
    /\ UNCHANGED <<clients, heap, lock, cfg, fp, client, exists, newc, warns, missed, before>>
    /\ UNCHANGED fpVars

\* m.clients[fingerprint] = newClient; return newClient
Insert(c) ==
    /\ pc[c] = "insert"
    /\ clients' = MapPut(clients, fp[c], newc[c])
    /\ ret' = [ret EXCEPT ![c] = newc[c]]
    /\ pc' = [pc EXCEPT ![c] = "unlock"]
    /\ UNCHANGED <<heap, lock, cfg, fp, client, exists, newc, warns, missed, before>>
    /\ UNCHANGED fpVars

\* defer m.lock.Unlock(), run as the slow path returns.
Unlock(c) ==
    /\ pc[c] = "unlock"
    /\ lock.writer = c /\ lock.granted
    /\ lock' = [lock EXCEPT !.writer = NoCall, !.granted = FALSE]
    /\ pc' = [pc EXCEPT ![c] = "done"]
    /\ UNCHANGED <<clients, heap, cfg, fp, client, exists, newc, ret, warns, missed, before>>
    /\ UNCHANGED fpVars

GetClient(c) ==
    \/ RLock(c)
    \/ Lookup(c)
    \/ RUnlock(c)
    \/ LockBegin(c)
    \/ LockAcquire(c)
    \/ Recheck(c)
    \/ Build(c)
    \/ Insert(c)
    \/ Unlock(c)

Next == \E c \in Calls : GetClient(c)

Spec == Init /\ [][Next]_vars

\* The Go scheduler runs every runnable goroutine, and sync.RWMutex wakes
\* the goroutines blocked on it when it is released: a call whose next step
\* stays possible takes it.
FairSpec == Spec /\ \A c \in Calls : WF_vars(GetClient(c))

\* The manager called with the proxy configurations.
GetClientProxy(c) ==
    \/ RLockProxy(c)
    \/ Lookup(c)
    \/ RUnlock(c)
    \/ LockBegin(c)
    \/ LockAcquire(c)
    \/ Recheck(c)
    \/ Build(c)
    \/ Insert(c)
    \/ Unlock(c)

NextProxy == \E c \in Calls : GetClientProxy(c)

SpecProxy == Init /\ [][NextProxy]_vars

----------------------------------------------------------------------------
(* Fingerprints of two configurations                                      *)

InitFP ==
    /\ InitManager
    /\ c1 \in FingerprintInputs
    /\ c2 \in FingerprintInputs
    /\ f1 = "" /\ f2 = ""
    /\ fpc = "first"

Fingerprint1 ==
    /\ fpc = "first"
    /\ f1' = getFingerprint(c1)
    /\ fpc' = "second"
    /\ UNCHANGED <<c1, c2, f2>>
    /\ UNCHANGED mgrVars

Fingerprint2 ==
    /\ fpc = "second"
    /\ f2' = getFingerprint(c2)
    /\ fpc' = "done"
    /\ UNCHANGED <<c1, c2, f1>>
    /\ UNCHANGED mgrVars

NextFP == Fingerprint1 \/ Fingerprint2

SpecFP == InitFP /\ [][NextFP]_vars

----------------------------------------------------------------------------
(* Properties                                                              *)

Done(c) == pc[c] = "done"

Begun(c) == pc[c] # "idle"

\* The call constructed a client.
Built(c) == newc[c] # NoClient

\* No call is in progress.
Quiescent == \A c \in Calls : pc[c] \in {"idle", "done"}

\* The calls that constructed a client for fingerprint f.
Builders(f) == {c \in Calls : Begun(c) /\ fp[c] = f /\ Built(c)}

\* The integral part of a duration in seconds.
WholeSeconds(d) == IF d < 0 THEN -(Abs(d) \div Second) ELSE d \div Second

\* The whole number of seconds nearest to a duration, the even one of two
\* equally near.
NearestSecond(d) ==
    LET near == (WholeSeconds(d) - 1) .. (WholeSeconds(d) + 1)
        dist(n) == Abs(d - n * Second)
    IN  CHOOSE n \in near :
           \A m \in near : \/ dist(n) < dist(m)
                           \/ dist(n) = dist(m) /\ (n % 2 = 0 \/ m = n)

\* Two configurations equal but for the sub-second parts of durations.
SameExceptSubSecond(a, b) ==
    \A f \in ConfigFields :
        IF f \in DurationFields
        THEN WholeSeconds(a[f]) = WholeSeconds(b[f])
        ELSE a[f] = b[f]

\* Every duration of the two rounds to the same second, with the same sign.
SameRounding(a, b) ==
    \A f \in DurationFields :
        /\ NearestSecond(a[f]) = NearestSecond(b[f])
        /\ (a[f] < 0) = (b[f] < 0)

\* Two configurations differ in a count, a flag, the proxy URL, or in the
\* whole seconds of a duration.
DifferInWholeSeconds(a, b) ==
    \E f \in ConfigFields :
        IF f \in DurationFields
        THEN WholeSeconds(a[f]) # WholeSeconds(b[f])
        ELSE a[f] # b[f]

\* Two configurations differ in a count, a flag, the proxy URL, or in the
\* nearest second (ties to even) or the sign of a duration.
DifferAfterRounding(a, b) ==
    \E f \in ConfigFields :
        IF f \in DurationFields
        THEN \/ NearestSecond(a[f]) # NearestSecond(b[f])
             \/ (a[f] < 0) # (b[f] < 0)
        ELSE a[f] # b[f]

\* C1: calls whose configurations have equal fingerprints construct one
\* client between them in every interleaving: at most one at any time,
\* exactly one once any of them has returned, and all that have returned
\* hold that one client.
C1_SingleConstruction ==
    \A c \in Calls :
        Begun(c) =>
            /\ Cardinality(Builders(fp[c])) <= 1
            /\ Done(c) =>
                 /\ Cardinality(Builders(fp[c])) = 1
                 /\ ret[c] \in 1..Len(heap)
                 /\ \A b \in Builders(fp[c]) : ret[c] = newc[b]
                 /\ \A d \in Calls : Done(d) /\ fp[d] = fp[c] => ret[d] = ret[c]

\* Two calls raced on the same miss: both missed under the read lock, one
\* built the client and the other found it under the write lock.
C1_Witness ==
    \E c, d \in Calls :
        /\ c # d /\ Done(c) /\ Done(d) /\ fp[c] = fp[d]
        /\ missed[c] /\ missed[d]
        /\ Built(c) /\ ~Built(d)
        /\ ret[c] = ret[d]

\* C2: the store is append-only: no step removes an entry, maps an existing
\* fingerprint to another client, or changes the client it is mapped to.
C2_AppendOnly ==
    [][\A f \in DOMAIN clients :
          /\ f \in DOMAIN clients'
          /\ clients'[f] = clients[f]
          /\ heap'[clients[f]] = heap[clients[f]]]_vars

\* The store holds two entries and a later call was served from it.
C2_Witness ==
    /\ Cardinality(DOMAIN clients) = 2
    /\ \E c \in Calls : Done(c) /\ ~missed[c] /\ before[c] # {}

\* C3 as stated: configurations equal but for sub-second parts of durations
\* (same whole seconds, different fractional part) have equal fingerprints.
C3_SubSecondCollapse ==
    fpc = "done" /\ SameExceptSubSecond(c1, c2) => f1 = f2

\* C3 amended: configurations equal but for sub-second parts of durations
\* have equal fingerprints when each duration rounds to the same nearest
\* second (ties to even) in both and has the same sign in both.
C3_RoundedCollapse ==
    fpc = "done" /\ SameExceptSubSecond(c1, c2) /\ SameRounding(c1, c2) => f1 = f2

\* 1.0s and 1.4s connect timeouts collapse.
C3_Witness ==
    /\ fpc = "done"
    /\ c1 = [ScenarioConfig EXCEPT !.ConnectTimeout = 1000]
    /\ c2 = [ScenarioConfig EXCEPT !.ConnectTimeout = 1400]
    /\ f1 = f2

\* C4 as stated: configurations that differ in a count, a flag, the proxy
\* URL or the whole seconds of a duration have different fingerprints.
C4_WholeSecondDiscrimination ==
    fpc = "done" /\ DifferInWholeSeconds(c1, c2) => f1 # f2

\* C4 amended: configurations that differ in a count, a flag, the proxy URL,
\* or in the nearest second (ties to even) or the sign of a duration have
\* different fingerprints, whatever the text of the other fields.
C4_Discrimination ==
    fpc = "done" /\ DifferAfterRounding(c1, c2) => f1 # f2

\* A proxy URL that carries the text of the ptls tag does not cancel a
\* difference in ProxyTLSSkipVerify.
C4_Witness ==
    /\ fpc = "done"
    /\ c1.ProxyURL = "http://p/|ptls:true" /\ ~c1.ProxyTLSSkipVerify
    /\ c2.ProxyURL = "http://p/" /\ c2.ProxyTLSSkipVerify
    /\ f1 # f2

\* The client's deadline and transport timeouts are those of the configuration.
MatchesExactly(cl, config) ==
    /\ cl.Timeout = config.RequestTimeout
    /\ cl.Transport.DialTimeout = config.ConnectTimeout
    /\ cl.Transport.IdleConnTimeout = config.IdleConnTimeout
    /\ cl.Transport.TLSHandshakeTimeout = config.TLSHandshakeTimeout
    /\ cl.Transport.ResponseHeaderTimeout = config.ResponseHeaderTimeout
    /\ cl.Transport.ExpectContinueTimeout = config.ExpectContinueTimeout

\* The same, each rounded to whole seconds.
MatchesToTheSecond(cl, config) ==
    /\ NearestSecond(cl.Timeout) = NearestSecond(config.RequestTimeout)
    /\ NearestSecond(cl.Transport.DialTimeout) = NearestSecond(config.ConnectTimeout)
    /\ NearestSecond(cl.Transport.IdleConnTimeout) = NearestSecond(config.IdleConnTimeout)
    /\ NearestSecond(cl.Transport.TLSHandshakeTimeout)
         = NearestSecond(config.TLSHandshakeTimeout)
    /\ NearestSecond(cl.Transport.ResponseHeaderTimeout)
         = NearestSecond(config.ResponseHeaderTimeout)
    /\ NearestSecond(cl.Transport.ExpectContinueTimeout)
         = NearestSecond(config.ExpectContinueTimeout)

\* C5 as stated: every call, hit or miss, returns a client whose deadline
\* and transport timeouts equal the fields of the call's configuration.
C5_ReturnedMatchesExactly ==
    \A c \in Calls : Done(c) => MatchesExactly(heap[ret[c]], cfg[c])

\* C5 amended: every call returns a client whose deadline and transport
\* timeouts equal the fields of the call's configuration rounded to whole
\* seconds, and equal them exactly when the call constructed the client.
C5_ReturnedMatchesToTheSecond ==
    \A c \in Calls :
        Done(c) =>
            /\ MatchesToTheSecond(heap[ret[c]], cfg[c])
            /\ Built(c) => MatchesExactly(heap[ret[c]], cfg[c])

\* A hit returned a client built for a request timeout 0.4s shorter.
C5_Witness ==
    \E c \in Calls :
        /\ Done(c) /\ ~Built(c)
        /\ cfg[c] = SubSecondConfig
        /\ heap[ret[c]].Timeout = 600 * Second

\* C6: a call that begins after a call with a field-wise equal
\* configuration has returned gets the identical client and constructs
\* nothing.
C6_SequentialReuse ==
    \A c, d \in Calls :
        Done(d) /\ c \in before[d] /\ cfg[c] = cfg[d] =>
            /\ ret[d] = ret[c]
            /\ ~Built(d)

\* The second of two sequential calls with one configuration has returned
\* the client the first one built.
C6_Witness ==
    \E c, d \in Calls :
        /\ Done(d) /\ c \in before[d] /\ cfg[c] = cfg[d]
        /\ Built(c) /\ ret[d] = newc[c]

\* C7: with no call in progress, the clients constructed, the store's
\* entries and the distinct fingerprints presented are equally many.
C7_CountsAgree ==
    Quiescent =>
        /\ Len(heap) = Cardinality(DOMAIN clients)
        /\ Len(heap) = Cardinality({fp[c] : c \in {d \in Calls : Done(d)}})

\* The scenario: idle=120s twice, then idle=121s; two constructions.
C7_Witness ==
    /\ \A c \in Calls : Done(c)
    /\ cfg[1] = ScenarioConfig /\ cfg[2] = ScenarioConfig /\ cfg[3] = Idle121Config
    /\ before[2] = {1} /\ before[3] = {1, 2}
    /\ Len(heap) = 2 /\ Cardinality(DOMAIN clients) = 2

\* The downgrade warnings a call has logged.
SkipWarningsOf(c) == {i \in 1..Len(warns[c]) : warns[c][i] = SkipVerifyWarning}

\* The proxy fallback warnings a call has logged.
ProxyWarningsOf(c) == {i \in 1..Len(warns[c]) : warns[c][i].about = "InvalidProxyURL"}

\* C8 as stated: every call with ProxyTLSSkipVerify set returns a client
\* with verification disabled and logs exactly one downgrade warning.
C8_EveryCallWarns ==
    \A c \in Calls :
        Done(c) /\ cfg[c].ProxyTLSSkipVerify =>
            /\ heap[ret[c]].Transport.TLSClientConfig.InsecureSkipVerify
            /\ Cardinality(SkipWarningsOf(c)) = 1

\* C8 amended: every call with ProxyTLSSkipVerify set returns a client with
\* verification disabled; the call that constructs the client logs exactly
\* one downgrade warning and a call served from the store logs none.
C8_BuilderWarns ==
    \A c \in Calls :
        Done(c) /\ cfg[c].ProxyTLSSkipVerify =>
            /\ heap[ret[c]].Transport.TLSClientConfig.InsecureSkipVerify
            /\ Cardinality(SkipWarningsOf(c)) = (IF Built(c) THEN 1 ELSE 0)

\* One call built the skip-verify client with its warning, a later one was
\* served the same client silently.
C8_Witness ==
    \E c, d \in Calls :
        /\ Done(c) /\ Done(d)
        /\ cfg[c].ProxyTLSSkipVerify /\ cfg[d].ProxyTLSSkipVerify
        /\ Built(c) /\ warns[c] = <<SkipVerifyWarning>>
        /\ ~Built(d) /\ warns[d] = <<>> /\ ret[d] = ret[c]

\* C9: with ProxyTLSSkipVerify set, validation is off towards the proxy and
\* stays on towards upstream destinations.
C9_ProxyLegOnly ==
    \A c \in Calls :
        Done(c) /\ cfg[c].ProxyTLSSkipVerify =>
            /\ ~VerifiesCertificate(heap[ret[c]], "proxy")
            /\ VerifiesCertificate(heap[ret[c]], "upstream")

\* C10 as stated: every call whose non-empty ProxyURL does not parse
\* returns a client with environment-derived proxy resolution that is the
\* store's entry for the call's fingerprint, and logs exactly one proxy
\* warning, which names the URL.
C10_EveryBadProxyCallWarns ==
    \A c \in Calls :
        Done(c) /\ cfg[c].ProxyURL # "" /\ ParseFails(cfg[c].ProxyURL) =>
            /\ ret[c] \in 1..Len(heap)
            /\ heap[ret[c]].Transport.Proxy = ProxyFromEnvironment
            /\ fp[c] \in DOMAIN clients
            /\ clients[fp[c]] = ret[c]
            /\ Cardinality(ProxyWarningsOf(c)) = 1
            /\ \A i \in ProxyWarningsOf(c) :
                  warns[c][i] = InvalidProxyWarning(cfg[c].ProxyURL)

\* C10 amended: every such call returns a client with environment-derived
\* proxy resolution that is the store's entry for the call's fingerprint;
\* the call that constructs the client logs exactly one proxy warning, which
\* names the URL, and a call served from the store logs none.
C10_BadProxyDegrades ==
    \A c \in Calls :
        Done(c) /\ cfg[c].ProxyURL # "" /\ ParseFails(cfg[c].ProxyURL) =>
            /\ ret[c] \in 1..Len(heap)
            /\ heap[ret[c]].Transport.Proxy = ProxyFromEnvironment
            /\ fp[c] \in DOMAIN clients
            /\ clients[fp[c]] = ret[c]
            /\ Cardinality(ProxyWarningsOf(c)) = (IF Built(c) THEN 1 ELSE 0)
            /\ \A i \in ProxyWarningsOf(c) :
                  warns[c][i] = InvalidProxyWarning(cfg[c].ProxyURL)

\* A call with "http://%zz" has built, stored and returned its client with
\* the warning, and a later call with it was served that client silently.
C10_Witness ==
    \E c, d \in Calls :
        /\ Done(c) /\ Built(c)
        /\ cfg[c].ProxyURL = "http://%zz"
        /\ clients[fp[c]] = ret[c]
        /\ heap[ret[c]].Transport.Proxy = ProxyFromEnvironment
        /\ warns[c] = <<InvalidProxyWarning("http://%zz")>>
        /\ Done(d) /\ ~Built(d) /\ cfg[d] = cfg[c]
        /\ ret[d] = ret[c] /\ warns[d] = <<>>

\* C11 as stated: a call with an empty ProxyURL returns a client with
\* environment-derived proxy resolution and logs no warning, whatever the
\* other fields.
C11_EmptyProxySilent ==
    \A c \in Calls :
        Done(c) /\ cfg[c].ProxyURL = "" =>
            /\ heap[ret[c]].Transport.Proxy = ProxyFromEnvironment
            /\ warns[c] = <<>>

\* C11 amended: a call with an empty ProxyURL returns a client with
\* environment-derived proxy resolution and logs no proxy warning; it logs
\* no warning at all unless ProxyTLSSkipVerify is set and the call
\* constructs the client, and then only the downgrade warning.
C11_EmptyProxyNoProxyWarning ==
    \A c \in Calls :
        Done(c) /\ cfg[c].ProxyURL = "" =>
            /\ heap[ret[c]].Transport.Proxy = ProxyFromEnvironment
            /\ ProxyWarningsOf(c) = {}
            /\ warns[c] = (IF cfg[c].ProxyTLSSkipVerify /\ Built(c)
                           THEN <<SkipVerifyWarning>>
                           ELSE <<>>)

\* Both cases have happened: an empty-proxy call that built silently, and
\* one with ProxyTLSSkipVerify that built and logged the downgrade.
C11_Witness ==
    \E c, d \in Calls :
        /\ Done(c) /\ Built(c) /\ cfg[c] = ScenarioConfig /\ warns[c] = <<>>
        /\ Done(d) /\ Built(d) /\ cfg[d] = SkipVerifyConfig
        /\ warns[d] = <<SkipVerifyWarning>>
        /\ heap[ret[d]].Transport.Proxy = ProxyFromEnvironment

\* Every call has returned.
AllDone == \A c \in Calls : Done(c)

\* A call that has returned holds the lock in no mode.
LocksReleased ==
    \A c \in Calls : Done(c) => c \notin lock.readers /\ lock.writer # c

\* C12: under fair scheduling every call returns; a call that has returned
\* holds the lock in no mode; and while some call has not returned some
\* call can take a step.
C12_EveryCallReturns ==
    /\ [](LocksReleased /\ (AllDone \/ ENABLED Next))
    /\ <>AllDone

\* Every call has returned, one of them from the re-check under the write
\* lock, and the lock is free.
C12_Witness ==
    /\ AllDone
    /\ \E c \in Calls : missed[c] /\ ~Built(c)
    /\ lock = [readers |-> {}, writer |-> NoCall, granted |-> FALSE]

\* The read-locked lookup of the call has run and found its fingerprint.
FastHit(c) == pc[c] \notin {"idle", "lookup"} /\ ~missed[c]

\* C14: a call whose read-locked lookup finds its fingerprint goes from
\* there to its return only: it never asks for the write lock, constructs
\* nothing, logs nothing, returns the stored client, and its steps leave the
\* store and the constructed clients as they were.
C14_HitHasNoEffect ==
    /\ [](\A c \in Calls :
            FastHit(c) =>
                /\ pc[c] \in {"runlock", "done"}
                /\ lock.writer # c
                /\ ~Built(c)
                /\ warns[c] = <<>>
                /\ Done(c) => ret[c] # NoClient /\ ret[c] = clients[fp[c]])
    /\ [][\A c \in Calls :
            (pc[c] = "lookup" /\ fp[c] \in DOMAIN clients /\ pc'[c] # pc[c])
            \/ (FastHit(c) /\ pc'[c] # pc[c])
            => clients' = clients /\ heap' = heap]_vars

\* A call was served on the fast path while the store held its entry.
C14_Witness ==
    \E c \in Calls :
        /\ FastHit(c) /\ Done(c)
        /\ ret[c] = clients[fp[c]]
        /\ warns[c] = <<>> /\ ~Built(c)
        /\ cfg[c] = SkipVerifyConfig

\* The calls between m.lock.RLock() and m.lock.RUnlock().
ReadHolders == {c \in Calls : pc[c] \in {"lookup", "runlock"}}

\* The calls between m.lock.Lock() and the deferred m.lock.Unlock().
WriteHolders == {c \in Calls : pc[c] \in {"recheck", "build", "insert", "unlock"}}

\* C15: at most one call holds the write lock and none holds the read lock
\* meanwhile; a call about to read the map holds the read lock (fast path)
\* or the write lock (re-check), a call about to construct or insert holds
\* the write lock; and only the step of the write lock's holder changes the
\* map or constructs a client.
C15_LockDiscipline ==
    /\ [](/\ Cardinality(WriteHolders) <= 1
          /\ WriteHolders # {} => ReadHolders = {}
          /\ lock.readers = ReadHolders
          /\ \A c \in Calls : c \in WriteHolders <=> (lock.writer = c /\ lock.granted)
          /\ \A c \in Calls : pc[c] = "lookup" => c \in lock.readers
          /\ \A c \in Calls :
                pc[c] \in {"recheck", "build", "insert"} =>
                    lock.writer = c /\ lock.granted /\ lock.readers = {})
    /\ [][clients' # clients \/ heap' # heap =>
            \E c \in Calls :
                /\ lock.writer = c /\ lock.granted /\ lock.readers = {}
                /\ pc[c] \in {"build", "insert"} /\ pc'[c] # pc[c]]_vars

\* A writer holds the lock and is about to insert while another call waits
\* to write and a third has not yet been admitted to read.
C15_Witness ==
    \E c, d \in Calls :
        /\ pc[c] = "insert" /\ lock.writer = c /\ lock.granted
        /\ pc[d] = "lock"
        /\ ReadHolders = {}

\* C16: a client constructed for a configuration whose non-empty ProxyURL
\* parses is pinned to that URL, its construction logs no proxy warning,
\* and two constructions for one ProxyURL choose the same proxy whatever
\* ProxyTLSSkipVerify is.
C16_ParsedProxyPinned ==
    /\ \A c \in Calls :
          Built(c) /\ cfg[c].ProxyURL # "" /\ ~ParseFails(cfg[c].ProxyURL) =>
              /\ heap[newc[c]].Transport.Proxy = ProxyURL(cfg[c].ProxyURL)
              /\ heap[newc[c]].Transport.Proxy # ProxyFromEnvironment
              /\ ProxyWarningsOf(c) = {}
    /\ \A c, d \in Calls :
          Built(c) /\ Built(d) /\ cfg[c].ProxyURL = cfg[d].ProxyURL =>
              heap[newc[c]].Transport.Proxy = heap[newc[d]].Transport.Proxy

\* Clients were constructed for "http://p/" without and with
\* ProxyTLSSkipVerify: both are pinned to it, and the second construction
\* logged the downgrade warning only.
C16_Witness ==
    \E c, d \in Calls :
        /\ Built(c) /\ cfg[c] = ProxiedConfig
        /\ Built(d) /\ cfg[d] = ProxiedSkipVerifyConfig
        /\ heap[newc[c]].Transport.Proxy = ProxyURL("http://p/")
        /\ heap[newc[d]].Transport.Proxy = ProxyURL("http://p/")
        /\ warns[c] = <<>> /\ warns[d] = <<SkipVerifyWarning>>

\* The client's settings are those of the configuration: durations to the
\* second, counts, flags and the proxy choice exactly.
AgreesAtPrecision(cl, config) ==
    /\ MatchesToTheSecond(cl, config)
    /\ cl.Transport.MaxIdleConns = config.MaxIdleConns
    /\ cl.Transport.MaxIdleConnsPerHost = config.MaxIdleConnsPerHost
    /\ cl.Transport.WriteBufferSize = config.WriteBufferSize
    /\ cl.Transport.ReadBufferSize = config.ReadBufferSize
    /\ cl.Transport.DisableCompression = config.DisableCompression
    /\ cl.Transport.ForceAttemptHTTP2 = config.ForceAttemptHTTP2
    /\ cl.Transport.TLSClientConfig.InsecureSkipVerify = config.ProxyTLSSkipVerify
    /\ cl.Transport.Proxy = ProxyFor(config)
    /\ cl.Transport.Proxy.kind = "ProxyURL" => cl.Transport.Proxy.url = config.ProxyURL

\* C17: every entry (f, client) of the store was built by a call whose
\* configuration has fingerprint f, the client is the one built from that
\* configuration, and it agrees at the fingerprint's precision with the
\* configuration of every call that presents f.
C17_StoreConsistent ==
    \A f \in DOMAIN clients :
        /\ clients[f] \in 1..Len(heap)
        /\ \E c \in Calls :
              /\ Built(c) /\ newc[c] = clients[f]
              /\ fp[c] = f /\ getFingerprint(cfg[c]) = f
              /\ heap[clients[f]] = BuildClient(cfg[c])
        /\ \A d \in Calls :
              Begun(d) /\ fp[d] = f => AgreesAtPrecision(heap[clients[f]], cfg[d])

\* The store holds a client built from one configuration while a call with
\* another configuration of the same fingerprint is under way, beside an
\* entry for a configuration that differs in a flag.
C17_Witness ==
    \E c, d, e \in Calls :
        /\ fp[c] \in DOMAIN clients /\ newc[c] = clients[fp[c]]
        /\ Begun(d) /\ fp[d] = fp[c] /\ cfg[d] # cfg[c]
        /\ fp[e] \in DOMAIN clients /\ newc[e] = clients[fp[e]]
        /\ cfg[e] = SkipVerifyConfig /\ cfg[c] = ScenarioConfig

\* C18: no two fingerprints of the store map to one client, and two calls
\* whose configurations have different fingerprints never return the same
\* client.
C18_CollisionFree ==
    /\ \A f, g \in DOMAIN clients : f # g => clients[f] # clients[g]
    /\ \A c, d \in Calls :
          Done(c) /\ Done(d) /\ fp[c] # fp[d] => ret[c] # ret[d]

\* Three fingerprints were presented by interleaved calls: each has its own
\* entry and each call returned its own client.
C18_Witness ==
    /\ Cardinality(DOMAIN clients) = 3
    /\ \A c \in Calls : Done(c) /\ missed[c]
    /\ \E c, d \in Calls : c # d /\ d \notin before[c] /\ c \notin before[d]
    /\ Cardinality({ret[c] : c \in Calls}) = 3

====
